---- MODULE Spec2Model ----
(***************************************************************************)
(* State-machine model of the mine-bot daily-meeting lifecycle: the three  *)
(* tables (users, teams, dailys), the Redmine issues created by /daily,    *)
(* the wall clock, and one action per Telegram handler.                    *)
(*                                                                         *)
(* Identities are small integers.  A Telegram username (handle) is a       *)
(* number in Handles; NoName stands for "no username".  A stored token is  *)
(* the number of the ENCRYPTION_KEY it was encrypted under (0 = NULL); its *)
(* plaintext is the telegram id of the account that submitted it.          *)
(***************************************************************************)
EXTENDS Integers, Sequences, FiniteSets, TLC

\* ---------------------------------------------------------------- bounds
MaxDailys == 2      \* rows the dailys table may hold
MaxTicks == 2       \* clock advances in one behaviour
MaxIssues == 2      \* issues the Redmine server may hold
MaxArgs == 3        \* arguments of one /daily command
MaxTeamId == 3      \* largest id the teams table may hand out
MaxActivities == 3          \* activities in one Redmine answer

\* ------------------------------------------------------------- constants
WINDOW == 1800      \* 30 * 60 seconds, daily_handler.py:146
NULL == -1          \* a NULL end_time (models.py:168-170)

Groups == {1, 2}            \* telegram group ids
Users == {1, 2}             \* telegram user ids
Handles == {1, 2, 3}        \* usernames that can be mentioned
NoName == 0                 \* username None
Keys == {0, 1, 2}           \* ENCRYPTION_KEY values; 0 = not set
Projects == {1, 2}          \* Redmine project ids given to /team

VARIABLES
    now,        \* datetime.now(), in seconds
    ticks,      \* number of clock advances so far
    encKey,     \* the ENCRYPTION_KEY of the environment
    users,      \* users table: telegram_id -> row (id = 0: no row)
    teams,      \* teams table: set of rows
    dailys,     \* dailys table: sequence of rows, id = index
    issues,     \* Redmine issues created by /daily, in creation order
    last,       \* the last handler run and the report it sent
    inbox       \* /daily updates received and not yet handled, and the
                \* outcome of those that were handled

vars == <<now, ticks, encKey, users, teams, dailys, issues, last, inbox>>

\* ---------------------------------------------------------------- helpers
Max(S) == CHOOSE x \in S : \A y \in S : y <= x
Min(S) == CHOOSE x \in S : \A y \in S : x <= y
Range(s) == {s[i] : i \in 1..Len(s)}

\* ------------------------------------------------------------ users table
NoUser == [id |-> 0, username |-> NoName, token |-> 0, active |-> FALSE]

\* CryptoManager.encrypt: raises when ENCRYPTION_KEY is not set
EncryptOK == encKey # 0

\* User.set_redmine_token: the stored blob, or the old one when encryption fails
set_redmine_token(row) ==
    IF EncryptOK THEN [row EXCEPT !.token = encKey] ELSE row

\* User.has_redmine_token
has_redmine_token(tid) == users[tid].token # 0

\* get_redmine_token decrypting a blob written under any key
get_redmine_token_anyKey(tid) ==
    IF encKey # 0 /\ users[tid].token # 0 THEN tid ELSE NULL

\* User.get_redmine_token: the plaintext (the owner's telegram id), or NULL
\* when the key is missing or is not the key the blob was encrypted under
get_redmine_token(tid) ==
    IF encKey # 0 /\ users[tid].token = encKey THEN tid ELSE NULL

\* UserService.get_by_telegram_id: the telegram id of the active row, or 0
get_by_telegram_id(tid) ==
    IF users[tid].id # 0 /\ users[tid].active THEN tid ELSE 0

\* the lookup that returns the newest row with that username, not the first
get_by_username_newest(h) ==
    LET S == {t \in Users : users[t].id # 0 /\ users[t].active
                            /\ users[t].username = h}
    IN  IF S = {} THEN 0
        ELSE CHOOSE t \in S : \A o \in S : users[t].id >= users[o].id

\* the lookup by username without the filter on is_active
get_by_username_inactiveToo(h) ==
    LET S == {t \in Users : users[t].id # 0 /\ users[t].username = h}
    IN  IF S = {} THEN 0
        ELSE CHOOSE t \in S : \A o \in S : users[t].id <= users[o].id

\* UserService.get_by_username: the first active row with that username, or 0
get_by_username(h) ==
    LET S == {t \in Users : users[t].id # 0 /\ users[t].active
                            /\ users[t].username = h}
    IN  IF S = {} THEN 0
        ELSE CHOOSE t \in S : \A o \in S : users[t].id <= users[o].id

\* UserService.delete: the active row with that primary key is soft-deleted
UserService_delete(id) ==
    [t \in Users |->
        IF users[t].id = id /\ users[t].active
        THEN [users[t] EXCEPT !.active = FALSE] ELSE users[t]]

NewUserId == Cardinality({t \in Users : users[t].id # 0}) + 1

\* ------------------------------------------------------------ teams table
NoTeam == [id |-> 0, group |-> 0, project |-> 0, creator |-> 0, active |-> FALSE]

\* TeamService.get_by_telegram_group_id
get_by_telegram_group_id(g) ==
    LET S == {t \in teams : t.group = g /\ t.active}
    IN  IF S = {} THEN NoTeam ELSE CHOOSE t \in S : TRUE

\* TeamService.get_by_id
TeamService_get_by_id(id) ==
    LET S == {t \in teams : t.id = id /\ t.active}
    IN  IF S = {} THEN NoTeam ELSE CHOOSE t \in S : TRUE

\* INTEGER PRIMARY KEY of a table without AUTOINCREMENT: largest id + 1
NewTeamId(T) == IF T = {} THEN 1 ELSE Max({t.id : t \in T}) + 1

\* TeamService.create that removes the row of the group only when it is active
TeamService_create_keepInactive(g, project, creator) ==
    LET kept == {t \in teams : t.group # g \/ ~t.active}
    IN  kept \cup {[id |-> NewTeamId(kept), group |-> g, project |-> project,
                    creator |-> creator, active |-> TRUE]}

\* TeamService.create: the teams table after removing the first row of the
\* group, active or not, if there is one, and inserting the new one
TeamService_create(g, project, creator) ==
    LET existing == {t \in teams : t.group = g}
        kept == IF existing = {} THEN teams
                ELSE teams \ {CHOOSE t \in existing :
                                \A o \in existing : t.id <= o.id}
    IN  kept \cup {[id |-> NewTeamId(kept), group |-> g, project |-> project,
                    creator |-> creator, active |-> TRUE]}

\* TeamService.delete: the row found by id among the active rows is flagged
\* inactive
TeamService_delete(id) ==
    {IF t.id = id /\ t.active THEN [t EXCEPT !.active = FALSE] ELSE t :
        t \in teams}

\* TeamService.delete_by_group_and_creator
delete_by_group_and_creator(g, creator) ==
    {t \in teams : ~(t.group = g /\ t.creator = creator /\ t.active)}

\* ----------------------------------------------------------- dailys table
DailyIds == 1..Len(dailys)

\* DailyService.create inserting a row already flagged as registered
DailyService_create_registered(team_id, g, start_time) ==
    Append(dailys, [team_id |-> team_id, group |-> g, start |-> start_time,
                    end |-> NULL, registered |-> TRUE,
                    participants |-> <<>>])

\* DailyService.create with the start time left at the epoch
DailyService_create_unstamped(team_id, g, start_time) ==
    Append(dailys, [team_id |-> team_id, group |-> g, start |-> 0,
                    end |-> NULL, registered |-> FALSE,
                    participants |-> <<>>])

\* DailyService.create storing the start an hour ahead of the clock that
\* stamps the end (two clocks in different time zones)
DailyService_create_hourAhead(team_id, g, start_time) ==
    Append(dailys, [team_id |-> team_id, group |-> g,
                    start |-> start_time + 3600,
                    end |-> NULL, registered |-> FALSE,
                    participants |-> <<>>])

\* DailyService.create (every caller passes participants_ids = [] or nothing,
\* and nothing calls update_participants)
DailyService_create(team_id, g, start_time) ==
    Append(dailys, [team_id |-> team_id, group |-> g, start |-> start_time,
                    end |-> NULL, registered |-> FALSE,
                    participants |-> <<>>])

\* the lookup with the NULL test inverted: a finished row of the group
get_active_daily_by_group_inverted(g) ==
    LET S == {d \in DailyIds : dailys[d].group = g /\ dailys[d].end # NULL}
    IN  IF S = {} THEN 0 ELSE Min(S)

\* get_active_daily_by_group without the filter on the group
get_active_daily_by_group_anyGroup(g) ==
    LET S == {d \in DailyIds : dailys[d].end = NULL}
    IN  IF S = {} THEN 0 ELSE Min(S)

\* DailyService.get_active_daily_by_group: id of the group's row with
\* end_time IS NULL, or 0
get_active_daily_by_group(g) ==
    LET S == {d \in DailyIds : dailys[d].group = g /\ dailys[d].end = NULL}
    IN  IF S = {} THEN 0 ELSE Min(S)

\* DailyService.get_by_id: the id of the row, or 0
DailyService_get_by_id(d) == IF d \in DailyIds THEN d ELSE 0

\* finish_daily that also flags the row as registered in Redmine
finish_daily_registering(d, end_time) ==
    IF DailyService_get_by_id(d) # 0
    THEN [dailys EXCEPT ![d].end = end_time, ![d].registered = TRUE]
    ELSE dailys

\* DailyService.finish_daily with Daily.finish_daily: the dailys table after
\* the call; the row found by id gets the end time, whatever it held before
finish_daily(d, end_time) ==
    IF DailyService_get_by_id(d) # 0
    THEN [dailys EXCEPT ![d].end = end_time] ELSE dailys

\* DailyService.finish_daily: what the call returns, the row's id or 0 (None)
finish_daily_result(d) == DailyService_get_by_id(d)

\* mark_registered_in_redmine flagging every row up to the one given
mark_registered_in_redmine_upTo(d) ==
    [k \in DailyIds |->
        IF k <= d THEN [dailys[k] EXCEPT !.registered = TRUE] ELSE dailys[k]]

\* Daily.mark_registered_in_redmine / DailyService.mark_registered_in_redmine
mark_registered_in_redmine(d) ==
    IF d \in DailyIds THEN [dailys EXCEPT ![d].registered = TRUE] ELSE dailys

\* DailyService.get_latest_unregistered_daily_by_group: the finished,
\* unregistered row of the group with the greatest end_time, or 0
get_latest_unregistered_daily_by_group(g) ==
    LET S == {d \in DailyIds : /\ dailys[d].group = g
                               /\ dailys[d].registered = FALSE
                               /\ dailys[d].end # NULL}
        top == {d \in S : \A o \in S : dailys[o].end <= dailys[d].end}
    IN  IF S = {} THEN 0 ELSE Min(top)

\* ------------------------------------------------------------------ report
NoBuckets == [not_found |-> <<>>, no_token |-> <<>>, logged |-> <<>>,
              failed |-> <<>>]

Report(op, g, u, report) ==
    [op |-> op, group |-> g, user |-> u, report |-> report, daily |-> 0,
     created |-> FALSE, mentions |-> <<>>, buckets |-> NoBuckets,
     logs |-> <<>>]

\* the update queue of the Application, as far as /daily updates go
Requests == {1, 2}
NoOutcome == [handled |-> FALSE, report |-> "none", daily |-> 0,
              created |-> FALSE]
NoInbox == [pending |-> <<>>, together |-> FALSE,
            outcome |-> [r \in Requests |-> NoOutcome]]

Init ==
    /\ now = 0
    /\ ticks = 0
    /\ encKey = 1
    /\ users = [t \in Users |-> NoUser]
    /\ teams = {}
    /\ dailys = <<>>
    /\ issues = <<>>
    /\ last = Report("init", 0, 0, "none")
    /\ inbox = NoInbox

\* ------------------------------------------------------------- environment
\* the wall clock advances
Tick(step) ==
    /\ ticks < MaxTicks
    /\ now' = now + step
    /\ ticks' = ticks + 1
    /\ last' = Report("tick", 0, 0, "none")
    /\ UNCHANGED <<encKey, users, teams, dailys, issues, inbox>>

\* the bot is restarted with another ENCRYPTION_KEY in its environment, or
\* with none
SetEncryptionKey(k) ==
    /\ k # encKey
    /\ encKey' = k
    /\ last' = Report("key", 0, 0, "none")
    /\ UNCHANGED <<now, ticks, users, teams, dailys, issues, inbox>>

\* ----------------------------------------------------------------- /token
\* token_command inserting a new row for a user who already has one
TokenCommand_recreating(u, name) ==
    /\ IF get_by_telegram_id(u) # 0
       THEN \* UserService.update_redmine_token
            IF EncryptOK
            THEN /\ users' = [users EXCEPT ![u] =
                        set_redmine_token([id |-> NewUserId, username |-> name,
                                           token |-> 0, active |-> TRUE])]
                 /\ last' = Report("token", 0, u, "token_updated")
            ELSE /\ users' = users
                 /\ last' = Report("token", 0, u, "update_failed")
       ELSE IF users[u].id # 0
       THEN \* UserService.create on a soft-deleted row: telegram_id is unique
            /\ users' = users
            /\ last' = Report("token", 0, u, "error")
       ELSE \* UserService.create
            /\ users' = [users EXCEPT ![u] =
                    set_redmine_token([id |-> NewUserId, username |-> name,
                                       token |-> 0, active |-> TRUE])]
            /\ last' = Report("token", 0, u,
                              IF EncryptOK THEN "token_saved" ELSE "save_failed")
    /\ UNCHANGED <<now, ticks, encKey, teams, dailys, issues, inbox>>

\* token_command storing the sender's username before the token is encrypted
TokenCommand_usernameFirst(u, name) ==
    /\ IF get_by_telegram_id(u) # 0
       THEN IF EncryptOK
            THEN /\ users' = [users EXCEPT ![u] =
                        [set_redmine_token(@) EXCEPT
                            !.username = IF name # NoName THEN name ELSE @]]
                 /\ last' = Report("token", 0, u, "token_updated")
            ELSE /\ users' = [users EXCEPT ![u].username =
                                    IF name # NoName THEN name ELSE @]
                 /\ last' = Report("token", 0, u, "update_failed")
       ELSE IF users[u].id # 0
       THEN /\ users' = users
            /\ last' = Report("token", 0, u, "error")
       ELSE /\ users' = [users EXCEPT ![u] =
                    set_redmine_token([id |-> NewUserId, username |-> name,
                                       token |-> 0, active |-> TRUE])]
            /\ last' = Report("token", 0, u,
                              IF EncryptOK THEN "token_saved" ELSE "save_failed")
    /\ UNCHANGED <<now, ticks, encKey, teams, dailys, issues, inbox>>

\* token_command in a private chat with a non-empty token: u is the sender,
\* name the sender's current Telegram username (NoName: none)
TokenCommand(u, name) ==
    /\ IF get_by_telegram_id(u) # 0
       THEN \* UserService.update_redmine_token
            IF EncryptOK
            THEN /\ users' = [users EXCEPT ![u] =
                        [set_redmine_token(@) EXCEPT
                            !.username = IF name # NoName THEN name ELSE @]]
                 /\ last' = Report("token", 0, u, "token_updated")
            ELSE /\ users' = users
                 /\ last' = Report("token", 0, u, "update_failed")
       ELSE IF users[u].id # 0
       THEN \* UserService.create on a soft-deleted row: telegram_id is unique
            /\ users' = users
            /\ last' = Report("token", 0, u, "error")
       ELSE \* UserService.create
            /\ users' = [users EXCEPT ![u] =
                    set_redmine_token([id |-> NewUserId, username |-> name,
                                       token |-> 0, active |-> TRUE])]
            /\ last' = Report("token", 0, u,
                              IF EncryptOK THEN "token_saved" ELSE "save_failed")
    /\ UNCHANGED <<now, ticks, encKey, teams, dailys, issues, inbox>>

\* ------------------------------------------------------------------ /team
\* team_command without the lookup of an existing team: every command that
\* passes the checks calls TeamService.create
TeamCommand_rebinding(g, u, p, admin, conn, found) ==
    LET report ==
            IF ~admin THEN "not_admin"
            ELSE IF get_by_telegram_id(u) = 0 \/ ~has_redmine_token(u)
                 THEN "no_token"
            ELSE IF get_redmine_token(u) = NULL THEN "token_error"
            ELSE IF ~conn THEN "no_connection"
            ELSE IF ~found THEN "project_not_found"
            ELSE "team_created"
    IN  /\ report = "team_created" =>
                \A t \in TeamService_create(g, p, u) : t.id <= MaxTeamId
        /\ teams' = IF report = "team_created"
                    THEN TeamService_create(g, p, u) ELSE teams
        /\ last' = Report("team", g, u, report)
        /\ UNCHANGED <<now, ticks, encKey, users, dailys, issues, inbox>>

\* team_command answering a command for a bound group with the error report
\* of its except branch
TeamCommand_conflictError(g, u, p, admin, conn, found) ==
    LET report ==
            IF ~admin THEN "not_admin"
            ELSE IF get_by_telegram_id(u) = 0 \/ ~has_redmine_token(u)
                 THEN "no_token"
            ELSE IF get_redmine_token(u) = NULL THEN "token_error"
            ELSE IF ~conn THEN "no_connection"
            ELSE IF ~found THEN "project_not_found"
            ELSE IF get_by_telegram_group_id(g).id # 0 THEN "error"
            ELSE "team_created"
    IN  /\ report = "team_created" =>
                \A t \in TeamService_create(g, p, u) : t.id <= MaxTeamId
        /\ teams' = IF report = "team_created"
                    THEN TeamService_create(g, p, u) ELSE teams
        /\ last' = Report("team", g, u, report)
        /\ UNCHANGED <<now, ticks, encKey, users, dailys, issues, inbox>>

\* team_command in group g by user u for Redmine project p; admin, conn and
\* found are the answers of Telegram (is u an administrator) and of Redmine
\* (test_connection, get_project_by_id)
TeamCommand(g, u, p, admin, conn, found) ==
    LET report ==
            IF ~admin THEN "not_admin"
            ELSE IF get_by_telegram_id(u) = 0 \/ ~has_redmine_token(u)
                 THEN "no_token"
            ELSE IF get_redmine_token(u) = NULL THEN "token_error"
            ELSE IF ~conn THEN "no_connection"
            ELSE IF ~found THEN "project_not_found"
            ELSE IF get_by_telegram_group_id(g).id # 0 THEN "already_bound"
            ELSE "team_created"
    IN  /\ report = "team_created" =>
                \A t \in TeamService_create(g, p, u) : t.id <= MaxTeamId
        /\ teams' = IF report = "team_created"
                    THEN TeamService_create(g, p, u) ELSE teams
        /\ last' = Report("team", g, u, report)
        /\ UNCHANGED <<now, ticks, encKey, users, dailys, issues, inbox>>

\* --------------------------------------------------- TeamService.create
\* a caller of the service binds group g to project p in the name of user u,
\* whatever the group is bound to
StoreBind(g, u, p) ==
    /\ \A t \in TeamService_create(g, p, u) : t.id <= MaxTeamId
    /\ teams' = TeamService_create(g, p, u)
    /\ last' = Report("bind", g, u, "bound")
    /\ UNCHANGED <<now, ticks, encKey, users, dailys, issues, inbox>>

\* --------------------------------------------------- TeamService.delete
\* a caller of the service soft-deletes the team with that id
StoreSoftDelete(id) ==
    /\ teams' = TeamService_delete(id)
    /\ last' = Report("soft_delete", 0, 0,
                      IF TeamService_get_by_id(id).id = 0 THEN "absent"
                      ELSE "deleted")
    /\ UNCHANGED <<now, ticks, encKey, users, dailys, issues, inbox>>

\* --------------------------------------------- UserService.get_or_create
\* a caller of the service asks for the account of telegram id u: the active
\* row when get_by_telegram_id finds one; else UserService.create inserts a
\* row, which the UNIQUE constraint on telegram_id rejects when a
\* soft-deleted row holds that id (the IntegrityError is re-raised after the
\* rollback)
StoreGetOrCreate(u, name, withToken) ==
    /\ IF get_by_telegram_id(u) # 0
       THEN /\ users' = users
            /\ last' = Report("get_or_create", 0, u, "returned")
       ELSE IF users[u].id # 0
       THEN /\ users' = users
            /\ last' = Report("get_or_create", 0, u, "raised")
       ELSE /\ users' = [users EXCEPT ![u] =
                    LET row == [id |-> NewUserId, username |-> name,
                                token |-> 0, active |-> TRUE]
                    IN  IF withToken THEN set_redmine_token(row) ELSE row]
            /\ last' = Report("get_or_create", 0, u, "returned")
    /\ UNCHANGED <<now, ticks, encKey, teams, dailys, issues, inbox>>

\* --------------------------------------------------- UserService.delete
\* a caller of the service soft-deletes the user with that primary key
StoreUserDelete(id) ==
    /\ users' = UserService_delete(id)
    /\ last' = Report("user_delete", 0, 0,
                      IF \E t \in Users : users[t].id = id /\ users[t].active
                      THEN "deleted" ELSE "absent")
    /\ UNCHANGED <<now, ticks, encKey, teams, dailys, issues, inbox>>

\* ----------------------------------------------------------- /team_delete
TeamDeleteCommand(g, u, admin) ==
    LET team == get_by_telegram_group_id(g)
        report ==
            IF ~admin THEN "not_admin"
            ELSE IF get_by_telegram_id(u) = 0 \/ ~has_redmine_token(u)
                 THEN "no_token"
            ELSE IF team.id = 0 THEN "not_bound"
            ELSE IF team.creator # u THEN "not_creator"
            ELSE "team_deleted"
    IN  /\ teams' = IF report = "team_deleted"
                    THEN delete_by_group_and_creator(g, u) ELSE teams
        /\ last' = Report("team_delete", g, u, report)
        /\ UNCHANGED <<now, ticks, encKey, users, dailys, issues, inbox>>

\* ------------------------------------------------------ video chat started
VideochatStarted(g) ==
    LET team == get_by_telegram_group_id(g)
        report ==
            IF team.id = 0 THEN "unconfigured"
            ELSE IF get_active_daily_by_group(g) # 0 THEN "already_active"
            ELSE "tracking_started"
    IN  /\ report = "tracking_started" => Len(dailys) < MaxDailys
        /\ dailys' = IF report = "tracking_started"
                     THEN DailyService_create(team.id, g, now) ELSE dailys
        /\ last' = Report("started", g, 0, report)
        /\ UNCHANGED <<now, ticks, encKey, users, teams, issues, inbox>>

\* -------------------------------------------------------- video chat ended
VideochatEnded(g) ==
    LET active == get_active_daily_by_group(g)
        report ==
            IF active = 0 THEN "no_active"
            ELSE IF TeamService_get_by_id(dailys[active].team_id).id = 0
                 THEN "team_not_found"
            ELSE "ended"
    IN  /\ dailys' = IF report = "ended" THEN finish_daily(active, now)
                     ELSE dailys
        /\ last' = [Report("ended", g, 0, report) EXCEPT !.daily = active]
        /\ UNCHANGED <<now, ticks, encKey, users, teams, issues, inbox>>

\* ------------------------------------------- DailyService.finish_daily
\* a caller of the service closes daily d at the current time (end_time is
\* left to default to datetime.now())
StoreClose(d) ==
    /\ dailys' = finish_daily(d, now)
    /\ last' = [Report("close", 0, 0,
                    IF finish_daily_result(d) = 0 THEN "absent" ELSE "closed")
                    EXCEPT !.daily = d]
    /\ UNCHANGED <<now, ticks, encKey, users, teams, issues, inbox>>

\* ------------------------------------------------ DailyService.create
\* a caller of the service opens a daily for group g at the current time,
\* under the team the group is bound to (0 when it is bound to none)
StoreOpen(g) ==
    /\ Len(dailys) < MaxDailys
    /\ dailys' = DailyService_create(get_by_telegram_group_id(g).id, g, now)
    /\ last' = [Report("open", g, 0, "opened") EXCEPT !.daily = Len(dailys) + 1]
    /\ UNCHANGED <<now, ticks, encKey, users, teams, issues, inbox>>

\* ----------------------------------------------------------------- /daily
\* One argument of the command is [at |-> starts with "@", name |-> the rest
\* of the word]; name = NoName is the empty string.
Mention(h) == [at |-> TRUE, name |-> h]
Word(h) == [at |-> FALSE, name |-> h]

\* daily_command, mention extraction: the names of the arguments that start
\* with "@" and have a non-empty name, in order
RECURSIVE ExtractMentions(_)
ExtractMentions(args) ==
    IF args = <<>> THEN <<>>
    ELSE (IF Head(args).at /\ Head(args).name # NoName
          THEN <<Head(args).name>> ELSE <<>>) \o ExtractMentions(Tail(args))

\* window checks that differ from the code's: one rejects the boundary
\* itself, the other rejects nothing
WindowExpired_atBoundary(elapsed) == elapsed >= WINDOW
WindowExpired_never(elapsed) == FALSE

\* the window check: more than 30 minutes since the daily ended
WindowExpired(elapsed) == elapsed > WINDOW

\* the bucket loop leaving the list at the first handle that gets no
\* successful log_daily call
RECURSIVE BucketLoop_stopAtFirstMiss(_, _, _, _)
BucketLoop_stopAtFirstMiss(m, logok, i, acc) ==
    IF i > Len(m) THEN acc
    ELSE LET h == m[i]
             db_user == get_by_username(h)
             call == [handle |-> h, account |-> db_user,
                      token |-> get_redmine_token(db_user), ok |-> logok[i]]
         IN  IF db_user = 0
             THEN [acc EXCEPT !.not_found = Append(@, h)]
             ELSE IF ~has_redmine_token(db_user)
             THEN [acc EXCEPT !.no_token = Append(@, h)]
             ELSE IF get_redmine_token(db_user) = NULL
             THEN [acc EXCEPT !.no_token = Append(@, h)]
             ELSE IF logok[i]
             THEN BucketLoop_stopAtFirstMiss(m, logok, i + 1,
                      [acc EXCEPT !.logged = Append(@, h),
                                  !.logs = Append(@, call)])
             ELSE [acc EXCEPT !.failed = Append(@, h),
                              !.logs = Append(@, call)]

\* the bucket loop over mentioned_usernames from position i on; logok[i] is
\* the answer of Redmine to the i-th handle's log_daily call, if it is made;
\* logs keeps the log_daily calls made, with their answers
RECURSIVE BucketLoop(_, _, _, _)
BucketLoop(m, logok, i, acc) ==
    IF i > Len(m) THEN acc
    ELSE LET h == m[i]
             db_user == get_by_username(h)
             call == [handle |-> h, account |-> db_user,
                      token |-> get_redmine_token(db_user), ok |-> logok[i]]
         IN  BucketLoop(m, logok, i + 1,
                IF db_user = 0
                THEN [acc EXCEPT !.not_found = Append(@, h)]
                ELSE IF ~has_redmine_token(db_user)
                THEN [acc EXCEPT !.no_token = Append(@, h)]
                ELSE IF get_redmine_token(db_user) = NULL
                THEN [acc EXCEPT !.no_token = Append(@, h)]
                ELSE IF logok[i]
                THEN [acc EXCEPT !.logged = Append(@, h),
                                 !.logs = Append(@, call)]
                ELSE [acc EXCEPT !.failed = Append(@, h),
                                 !.logs = Append(@, call)])

EmptyAcc == [not_found |-> <<>>, no_token |-> <<>>, logged |-> <<>>,
             failed |-> <<>>, logs |-> <<>>]

\* the validation steps with the requester looked up before the team
DailyPre_requesterFirst(g, u) ==
    LET d == get_latest_unregistered_daily_by_group(g)
    IN  IF get_by_telegram_id(u) = 0 \/ ~has_redmine_token(u)
             THEN "no_token"
        ELSE IF get_by_telegram_group_id(g).id = 0 THEN "not_bound"
        ELSE IF d = 0 THEN "nothing_to_register"
        ELSE IF dailys[d].end = NULL THEN "still_open"
        ELSE IF WindowExpired(now - dailys[d].end) THEN "expired"
        ELSE IF get_redmine_token(u) = NULL THEN "token_error"
        ELSE "ok"

\* the validation steps that read only the database and the clock: the
\* error report of the first one that fails, "ok" when all pass
DailyPre(g, u) ==
    LET d == get_latest_unregistered_daily_by_group(g)
    IN  IF get_by_telegram_group_id(g).id = 0 THEN "not_bound"
        ELSE IF get_by_telegram_id(u) = 0 \/ ~has_redmine_token(u)
             THEN "no_token"
        ELSE IF d = 0 THEN "nothing_to_register"
        ELSE IF dailys[d].end = NULL THEN "still_open"
        ELSE IF WindowExpired(now - dailys[d].end) THEN "expired"
        ELSE IF get_redmine_token(u) = NULL THEN "token_error"
        ELSE "ok"

\* the candidate daily, once the lookup has been made
DailyCandidate(g, u) ==
    IF DailyPre(g, u) \in {"not_bound", "no_token"} THEN 0
    ELSE get_latest_unregistered_daily_by_group(g)

\* a run that marks the daily registered although create_daily_task failed
DailyRun_markOnCreateFailure(g, u, args, ext) ==
    LET m == ExtractMentions(args)
        pre == DailyPre(g, u)
        d == DailyCandidate(g, u)
        err == "error"
        Out(report, daily, created, marked, acc) ==
            [report |-> report, daily |-> daily, created |-> created,
             marked |-> marked, mentions |-> IF marked THEN m ELSE <<>>,
             buckets |-> [not_found |-> acc.not_found,
                          no_token |-> acc.no_token,
                          logged |-> acc.logged, failed |-> acc.failed],
             logs |-> acc.logs]
        acc == BucketLoop(m, ext.logok, 1, EmptyAcc)
    IN  IF args = <<>> THEN Out("usage", 0, FALSE, FALSE, EmptyAcc)
        ELSE IF m = <<>> THEN Out("no_mentions", 0, FALSE, FALSE, EmptyAcc)
        ELSE IF ext.failAt = 1 THEN Out(err, 0, FALSE, FALSE, EmptyAcc)
        ELSE IF pre # "ok"
        THEN Out(IF ext.failAt = 2 THEN err ELSE pre, d, FALSE, FALSE, EmptyAcc)
        ELSE IF ~ext.conn
        THEN Out(IF ext.failAt = 2 THEN err ELSE "no_connection", d,
                 FALSE, FALSE, EmptyAcc)
        ELSE IF ext.failAt = 2 THEN Out(err, d, FALSE, FALSE, EmptyAcc)
        ELSE IF ~ext.create
        THEN Out(IF ext.failAt = 3 THEN err ELSE "create_failed", d,
                 FALSE, TRUE, EmptyAcc)
        ELSE IF ext.failAt = 3 THEN Out(err, d, TRUE, FALSE, EmptyAcc)
        ELSE Out(IF ext.failAt = 4 THEN err ELSE "success", d, TRUE, TRUE, acc)

\* What one run of daily_command does (mentions is mentioned_usernames as
\* the bucket loop saw it, empty when the run ended before the loop).  ext holds the answers of the outside
\* world: failAt = k > 0 makes the k-th message sent to the chat raise (the
\* except branch then reports "error"); conn, create and logok are Redmine's
\* answers to test_connection, create_daily_task and the log_daily calls.
DailyRun(g, u, args, ext) ==
    LET m == ExtractMentions(args)
        pre == DailyPre(g, u)
        d == DailyCandidate(g, u)
        err == "error"
        Out(report, daily, created, marked, acc) ==
            [report |-> report, daily |-> daily, created |-> created,
             marked |-> marked, mentions |-> IF marked THEN m ELSE <<>>,
             buckets |-> [not_found |-> acc.not_found,
                          no_token |-> acc.no_token,
                          logged |-> acc.logged, failed |-> acc.failed],
             logs |-> acc.logs]
        acc == BucketLoop(m, ext.logok, 1, EmptyAcc)
    IN  IF args = <<>> THEN Out("usage", 0, FALSE, FALSE, EmptyAcc)
        ELSE IF m = <<>> THEN Out("no_mentions", 0, FALSE, FALSE, EmptyAcc)
        ELSE IF ext.failAt = 1 THEN Out(err, 0, FALSE, FALSE, EmptyAcc)
        ELSE IF pre # "ok"
        THEN Out(IF ext.failAt = 2 THEN err ELSE pre, d, FALSE, FALSE, EmptyAcc)
        ELSE IF ~ext.conn
        THEN Out(IF ext.failAt = 2 THEN err ELSE "no_connection", d,
                 FALSE, FALSE, EmptyAcc)
        ELSE IF ext.failAt = 2 THEN Out(err, d, FALSE, FALSE, EmptyAcc)
        ELSE IF ~ext.create
        THEN Out(IF ext.failAt = 3 THEN err ELSE "create_failed", d,
                 FALSE, FALSE, EmptyAcc)
        ELSE IF ext.failAt = 3 THEN Out(err, d, TRUE, FALSE, EmptyAcc)
        ELSE Out(IF ext.failAt = 4 THEN err ELSE "success", d, TRUE, TRUE, acc)

\* the bucket loop calls log_daily for handle h
LogCallMade(h) ==
    /\ get_by_username(h) # 0
    /\ has_redmine_token(get_by_username(h))
    /\ get_redmine_token(get_by_username(h)) # NULL

\* the answers of the outside world that lead a run in this state to
\* different outcomes (an answer to a call that is not made changes nothing)
DailyExt(g, u, args) ==
    LET m == ExtractMentions(args)
        n == Len(m)
        allok == [i \in 1..n |-> TRUE]
        E(failAt, conn, create, logok) ==
            [failAt |-> failAt, conn |-> conn, create |-> create,
             logok |-> logok]
    IN  IF n = 0 THEN {E(0, TRUE, TRUE, allok)}
        ELSE IF DailyPre(g, u) # "ok"
        THEN {E(0, TRUE, TRUE, allok), E(1, TRUE, TRUE, allok)}
        ELSE {E(0, FALSE, TRUE, allok), E(0, TRUE, FALSE, allok),
              E(1, TRUE, TRUE, allok), E(2, TRUE, TRUE, allok),
              E(3, TRUE, TRUE, allok)}
             \cup {E(4, TRUE, TRUE, allok)}
             \cup {E(0, TRUE, TRUE, l) : l \in
                    {k \in [1..n -> BOOLEAN] :
                        \A i \in 1..n : ~LogCallMade(m[i]) => k[i]}}

\* daily_command creating the issue in the project of the team row the
\* daily was opened under
daily_command_sessionBinding(g, u, args, exts) ==
    \E ext \in exts :
        LET out == DailyRun(g, u, args, ext)
        IN  /\ out.created => Len(issues) < MaxIssues
            /\ issues' = IF out.created
                         THEN Append(issues,
                                [project |-> TeamService_get_by_id(
                                                dailys[out.daily].team_id).project,
                                 by |-> get_redmine_token(u),
                                 daily |-> out.daily])
                         ELSE issues
            /\ dailys' = IF out.marked
                         THEN mark_registered_in_redmine(out.daily) ELSE dailys
            /\ last' = [op |-> "daily", group |-> g, user |-> u,
                        report |-> out.report, daily |-> out.daily,
                        created |-> out.created, mentions |-> out.mentions,
                        buckets |-> out.buckets, logs |-> out.logs]
            /\ UNCHANGED <<now, ticks, encKey, users, teams>>

\* daily_command: one whole run of the handler, which the Application
\* finishes before it takes the next update; exts holds the answers the
\* outside world may give
daily_command(g, u, args, exts) ==
    \E ext \in exts :
        LET out == DailyRun(g, u, args, ext)
        IN  /\ out.created => Len(issues) < MaxIssues
            /\ issues' = IF out.created
                         THEN Append(issues,
                                [project |-> get_by_telegram_group_id(g).project,
                                 by |-> get_redmine_token(u),
                                 daily |-> out.daily])
                         ELSE issues
            /\ dailys' = IF out.marked
                         THEN mark_registered_in_redmine(out.daily) ELSE dailys
            /\ last' = [op |-> "daily", group |-> g, user |-> u,
                        report |-> out.report, daily |-> out.daily,
                        created |-> out.created, mentions |-> out.mentions,
                        buckets |-> out.buckets, logs |-> out.logs]
            /\ UNCHANGED <<now, ticks, encKey, users, teams>>

\* a /daily update handled as soon as it is received
DailyCommand(g, u, args) ==
    /\ daily_command(g, u, args, DailyExt(g, u, args))
    /\ UNCHANGED inbox

\* a /daily update during which every message is delivered and Redmine
\* answers every call
DailyCommandAnswered(g, u, args) ==
    /\ daily_command(g, u, args,
            {[failAt |-> 0, conn |-> TRUE, create |-> TRUE,
              logok |-> [i \in 1..Len(ExtractMentions(args)) |-> TRUE]]})
    /\ UNCHANGED inbox

\* a /daily update is received and queued while the Application may still
\* hold an earlier one
DailyArrives(r) ==
    /\ r \notin Range(inbox.pending)
    /\ ~inbox.outcome[r].handled
    /\ inbox' = [inbox EXCEPT !.pending = Append(@, r),
                              !.together = @ \/ inbox.pending # <<>>]
    /\ last' = Report("arrive", 0, 0, "none")
    /\ UNCHANGED <<now, ticks, encKey, users, teams, dailys, issues>>

\* the Application takes the oldest queued /daily update and runs the
\* handler on it to the end
DailyHandled(g, u, args) ==
    /\ inbox.pending # <<>>
    /\ daily_command(g, u, args, DailyExt(g, u, args))
    /\ inbox' = [inbox EXCEPT
            !.pending = Tail(@),
            !.outcome[Head(inbox.pending)] =
                [handled |-> TRUE, report |-> last'.report,
                 daily |-> last'.daily, created |-> last'.created]]

\* ------------------------------------------------------------ the bot
\* argument lists of at most MaxArgs mentions
RECURSIVE SeqsUpTo(_, _)
SeqsUpTo(S, n) ==
    IF n = 0 THEN {<<>>}
    ELSE LET shorter == SeqsUpTo(S, n - 1)
         IN  shorter \cup {Append(s, x) : s \in {t \in shorter : Len(t) = n - 1},
                                          x \in S}

\* the commands /daily w1 .. wn with n <= MaxArgs: the lists of mentions,
\* and lists that hold a lone "@" or a plain word
DailyArgs ==
    SeqsUpTo({Mention(h) : h \in Handles}, MaxArgs)
        \cup {<<Word(1)>>, <<Mention(NoName)>>,
              <<Word(2), Mention(1)>>, <<Mention(2), Mention(NoName)>>}

\* the answers of Telegram and Redmine to /team that lead to different paths
TeamExt == {<<TRUE, TRUE, TRUE>>, <<FALSE, TRUE, TRUE>>,
            <<TRUE, FALSE, TRUE>>, <<TRUE, TRUE, FALSE>>}

\* ------------------------------------------------- RedmineService.log_daily
\* names are sequences of characters
meeting == <<"m", "e", "e", "t", "i", "n", "g">>

\* str.lower on the characters that occur in the activity names
LowerChar(c) ==
    CASE c = "D" -> "d" [] c = "E" -> "e" [] c = "G" -> "g" [] c = "I" -> "i"
      [] c = "M" -> "m" [] c = "N" -> "n" [] c = "T" -> "t" [] OTHER -> c
lower(str) == [i \in 1..Len(str) |-> LowerChar(str[i])]

\* Python's "sub in str"
In(sub, str) ==
    \E i \in 0..(Len(str) - Len(sub)) : SubSeq(str, i + 1, i + Len(sub)) = sub

\* the test of log_daily with the name taken as it is written
IsMeeting_caseSensitive(activity) == In(meeting, activity.name)

\* log_daily: "meeting" in activity["name"].lower()
IsMeeting(activity) == In(meeting, lower(activity.name))

\* the time entry activities a Redmine may have
Activities ==
    {[id |-> 8, name |-> <<"M", "e", "e", "t", "i", "n", "g">>],
     [id |-> 9, name |-> <<"D", "e", "s", "i", "g", "n">>],
     [id |-> 10, name |-> <<"M", "E", "E", "T", "I", "N", "G">>],
     [id |-> 11, name |-> <<"T", "e", "a", "m", " ", "m", "e", "e", "t", "i", "n", "g", "s">>],
     [id |-> 12, name |-> <<"M", "e", "e", "t", "i", "n">>],
     [id |-> 13, name |-> <<"D", "e", "v">>]}

\* the lists of up to n different activities
RECURSIVE ActivityLists(_)
ActivityLists(n) ==
    IF n = 0 THEN {<<>>}
    ELSE LET shorter == ActivityLists(n - 1)
         IN  shorter \cup
             {Append(l, a) : l \in {t \in shorter : Len(t) = n - 1},
                             a \in Activities}

\* RedmineService.get_activities: the list Redmine answers with, or [] when
\* the call fails
get_activities(listed, answer) == IF listed THEN answer ELSE <<>>

\* log_daily returns None
NoEntry == [ok |-> FALSE, activity_id |-> 0]

\* RedmineService.log_daily called without an activity name: listed and
\* created tell whether the enumeration call and time_entry.create succeed
log_daily(listed, answer, created) ==
    LET activities == get_activities(listed, answer)
        meetings == {i \in 1..Len(activities) : IsMeeting(activities[i])}
    IN  IF activities = <<>> THEN NoEntry
        ELSE LET activity_id == IF meetings # {} THEN activities[Min(meetings)].id
                                ELSE activities[1].id
             IN  IF created THEN [ok |-> TRUE, activity_id |-> activity_id]
                 ELSE NoEntry

\* one call of log_daily against the Redmine that last describes
LogDaily ==
    /\ last.op = "redmine"
    /\ last' = [last EXCEPT !.op = "log_daily",
                            !.result = log_daily(last.listed, last.activities,
                                                 last.created)]
    /\ UNCHANGED <<now, ticks, encKey, users, teams, dailys, issues, inbox>>

\* SpecActivities: log_daily called once against a Redmine with any list of
\* up to MaxActivities different activities, whose enumeration call and
\* time_entry.create call succeed or fail.
InitActivities ==
    /\ now = 0
    /\ ticks = 0
    /\ encKey = 1
    /\ users = [t \in Users |-> NoUser]
    /\ teams = {}
    /\ dailys = <<>>
    /\ issues = <<>>
    /\ inbox = NoInbox
    /\ \E answer \in ActivityLists(MaxActivities), listed \in BOOLEAN,
          created \in BOOLEAN :
            /\ \A i, j \in 1..Len(answer) : i # j => answer[i] # answer[j]
            /\ last = [op |-> "redmine", activities |-> answer,
                       listed |-> listed, created |-> created,
                       result |-> NoEntry]

NextActivities == LogDaily

SpecActivities == InitActivities /\ [][NextActivities]_vars

\* ------------------------------------------------------------- durations
\* A float number of hours is kept as the exact fraction num / den.  A text
\* is kept as the numbers it shows and the unit written after the minutes:
\* hours = NULL when it has no hours component, minutes = NULL when it
\* shows hours only.

\* duration_delta.total_seconds() / 3600 rounded down to whole minutes first
daily_duration_hours_wholeMinutes(start_time, end_time) ==
    [num |-> (end_time - start_time) \div 60, den |-> 60]

\* daily_command: duration_delta.total_seconds() / 3600
daily_duration_hours(start_time, end_time) ==
    [num |-> end_time - start_time, den |-> 3600]

\* daily_command: duration_text
duration_text(start_time, end_time) ==
    LET total_minutes == (end_time - start_time) \div 60
    IN  IF total_minutes >= 60
        THEN IF total_minutes % 60 > 0
             THEN [hours |-> total_minutes \div 60,
                   minutes |-> total_minutes % 60, unit |-> "min"]
             ELSE [hours |-> total_minutes \div 60, minutes |-> NULL,
                   unit |-> ""]
        ELSE [hours |-> NULL, minutes |-> total_minutes, unit |-> " min"]

\* _send_videochat_ended_notification: the values duration_str may take.
\* minutes is int((duration_hours - hours) * 60) on floats: below one hour
\* it is the whole minutes of the duration; from one hour on, the product
\* for a duration of whole minutes may fall just below the whole number and
\* lose a minute.
duration_str(start_time, end_time) ==
    LET seconds == end_time - start_time
        hours == seconds \div 3600
        exact == (seconds % 3600) \div 60
        minutes == IF hours > 0 /\ seconds % 60 = 0 /\ exact > 0
                   THEN {exact - 1, exact} ELSE {exact}
    IN  {IF hours > 0 THEN [hours |-> hours, minutes |-> m, unit |-> "m"]
         ELSE [hours |-> NULL, minutes |-> m, unit |-> "m"] : m \in minutes}

\* seconds since midnight at which a video chat may start or end
ClockTimes == {32400, 32401, 32459, 32460, 35250, 35999, 36000, 36001,
               36060, 39600, 39690}

\* videochat_ended_handler: the notification for the session of last
EndedNotification ==
    /\ last.op = "session"
    /\ \E str \in duration_str(last.start, last.end) :
            last' = [last EXCEPT !.op = "ended_notification", !.notice = str]
    /\ UNCHANGED <<now, ticks, encKey, users, teams, dailys, issues, inbox>>

\* daily_command from the duration to the bucket loop, for n participants
\* with usable credentials: the hours of each log_daily call and the text
\* of the report
DailyDuration(n) ==
    /\ last.op = "ended_notification"
    /\ last' = [last EXCEPT
                    !.op = "daily_duration",
                    !.text = duration_text(last.start, last.end),
                    !.hours = [i \in 1..n |->
                                daily_duration_hours(last.start, last.end)]]
    /\ UNCHANGED <<now, ticks, encKey, users, teams, dailys, issues, inbox>>

\* SpecDurations: a video chat that started and ended at any two of the
\* clock times, its ended notification, and its registration for one to
\* MaxArgs participants.
InitDurations ==
    /\ now = 0
    /\ ticks = 0
    /\ encKey = 1
    /\ users = [t \in Users |-> NoUser]
    /\ teams = {}
    /\ dailys = <<>>
    /\ issues = <<>>
    /\ inbox = NoInbox
    /\ \E start_time \in ClockTimes, end_time \in ClockTimes :
            /\ start_time <= end_time
            /\ last = [op |-> "session", start |-> start_time,
                       end |-> end_time,
                       notice |-> [hours |-> NULL, minutes |-> NULL, unit |-> ""],
                       text |-> [hours |-> NULL, minutes |-> NULL, unit |-> ""],
                       hours |-> <<>>]

NextDurations ==
    \/ EndedNotification
    \/ \E n \in 1..MaxArgs : DailyDuration(n)

SpecDurations == InitDurations /\ [][NextDurations]_vars

\* ------------------------------------------------- /daily, step by step
\* daily_command from create_daily_task on, one effect at a time; last
\* keeps the position of the handler (pc), the index i of the next handle
\* of the bucket loop and the lists built so far.  The Application takes
\* the next update only when the handler is done.
Running == last.op = "daily_step" /\ last.pc # "done"

\* a /daily command that passes every check before create_daily_task; the
\* call succeeds or not
StepCreate(g, u, args, create) ==
    LET m == ExtractMentions(args)
        d == DailyCandidate(g, u)
    IN  /\ ~Running
        /\ m # <<>>
        /\ DailyPre(g, u) = "ok"
        /\ Len(issues) < MaxIssues
        /\ issues' = IF create
                     THEN Append(issues,
                            [project |-> get_by_telegram_group_id(g).project,
                             by |-> get_redmine_token(u), daily |-> d])
                     ELSE issues
        /\ last' = [op |-> "daily_step", group |-> g, user |-> u,
                    report |-> IF create THEN "running" ELSE "create_failed",
                    daily |-> d, created |-> create, mentions |-> m,
                    buckets |-> NoBuckets, logs |-> <<>>,
                    pc |-> IF create THEN "progress" ELSE "done", i |-> 1]
        /\ UNCHANGED <<now, ticks, encKey, users, teams, dailys, inbox>>

\* the progress message after create_daily_task is delivered or raises
StepProgress(delivered) ==
    /\ Running /\ last.pc = "progress"
    /\ last' = IF delivered THEN [last EXCEPT !.pc = "loop"]
               ELSE [last EXCEPT !.pc = "done", !.report = "error"]
    /\ UNCHANGED <<now, ticks, encKey, users, teams, dailys, issues, inbox>>

\* one round of the bucket loop, for the handle at position i; logok is
\* the answer to its log_daily call, if the call is made
StepHandle(logok) ==
    /\ Running /\ last.pc = "loop" /\ last.i <= Len(last.mentions)
    /\ ~LogCallMade(last.mentions[last.i]) => logok
    /\ LET acc == BucketLoop(<<last.mentions[last.i]>>, <<logok>>, 1,
                             [not_found |-> last.buckets.not_found,
                              no_token |-> last.buckets.no_token,
                              logged |-> last.buckets.logged,
                              failed |-> last.buckets.failed,
                              logs |-> last.logs])
       IN  last' = [last EXCEPT
                        !.i = @ + 1,
                        !.buckets = [not_found |-> acc.not_found,
                                     no_token |-> acc.no_token,
                                     logged |-> acc.logged,
                                     failed |-> acc.failed],
                        !.logs = acc.logs]
    /\ UNCHANGED <<now, ticks, encKey, users, teams, dailys, issues, inbox>>

\* the handler marking the daily wherever the loop stands
StepMark_anytime ==
    /\ Running /\ last.pc = "loop"
    /\ dailys' = mark_registered_in_redmine(last.daily)
    /\ last' = [last EXCEPT !.pc = "report"]
    /\ UNCHANGED <<now, ticks, encKey, users, teams, issues, inbox>>

\* the handler going on to the report without marking the daily
StepMark_unmarked ==
    /\ Running /\ last.pc = "loop" /\ last.i > Len(last.mentions)
    /\ last' = [last EXCEPT !.pc = "report"]
    /\ UNCHANGED <<now, ticks, encKey, users, teams, dailys, issues, inbox>>

\* the loop is over: DailyService.mark_registered_in_redmine
StepMark ==
    /\ Running /\ last.pc = "loop" /\ last.i > Len(last.mentions)
    /\ dailys' = mark_registered_in_redmine(last.daily)
    /\ last' = [last EXCEPT !.pc = "report"]
    /\ UNCHANGED <<now, ticks, encKey, users, teams, issues, inbox>>

\* the report is delivered or raises
StepReport(delivered) ==
    /\ Running /\ last.pc = "report"
    /\ last' = [last EXCEPT !.pc = "done",
                            !.report = IF delivered THEN "success" ELSE "error"]
    /\ UNCHANGED <<now, ticks, encKey, users, teams, dailys, issues, inbox>>

\* a /daily command that ends before create_daily_task: with the usage or
\* no-mentions reply, with the report of the check that fails, or in the
\* except branch when a message raises
StepReject(g, u, args, conn, failAt) ==
    LET out == DailyRun(g, u, args,
                    [failAt |-> failAt, conn |-> conn, create |-> TRUE,
                     logok |-> [i \in 1..Len(ExtractMentions(args)) |-> TRUE]])
    IN  /\ ~Running
        /\ ~out.created
        /\ last' = [op |-> "daily_step", group |-> g, user |-> u,
                    report |-> out.report, daily |-> out.daily,
                    created |-> FALSE, mentions |-> ExtractMentions(args),
                    buckets |-> NoBuckets, logs |-> <<>>,
                    pc |-> "done", i |-> 1]
        /\ UNCHANGED <<now, ticks, encKey, users, teams, dailys, issues, inbox>>

\* ---------------------------------------------------------------------
\* Spec: the bot as main.py runs it (updates are handled one after another,
\* so each handler is one step) in one group with one user; every advance of
\* the clock is longer than the registration window.
Next ==
    \/ Tick(WINDOW + 1)
    \/ TokenCommand(1, 1)
    \/ \E e \in TeamExt : TeamCommand(1, 1, 1, e[1], e[2], e[3])
    \/ \E admin \in BOOLEAN : TeamDeleteCommand(1, 1, admin)
    \/ VideochatStarted(1)
    \/ VideochatEnded(1)
    \/ DailyCommand(1, 1, <<Mention(1)>>)

Spec == Init /\ [][Next]_vars

\* SpecWindow: the same bot with a clock that advances by one second or by
\* the length of the window, and with Telegram and Redmine always answering.
NextWindow ==
    \/ \E step \in {1, WINDOW} : Tick(step)
    \/ TokenCommand(1, 1)
    \/ TeamCommand(1, 1, 1, TRUE, TRUE, TRUE)
    \/ VideochatStarted(1)
    \/ VideochatEnded(1)
    \/ DailyCommandAnswered(1, 1, <<Mention(1)>>)

SpecWindow == Init /\ [][NextWindow]_vars

\* SpecGroups: the bot in two groups with the clock standing still and
\* Telegram and Redmine always answering; user 1 administers both groups
\* and may unbind group 1.
NextGroups ==
    \/ TokenCommand(1, 1)
    \/ \E g \in Groups : TeamCommand(g, 1, 1, TRUE, TRUE, TRUE)
    \/ TeamDeleteCommand(1, 1, TRUE)
    \/ \E g \in Groups : VideochatStarted(g)
    \/ \E g \in Groups : VideochatEnded(g)
    \/ \E g \in Groups : DailyCommandAnswered(g, 1, <<Mention(1)>>)

SpecGroups == Init /\ [][NextGroups]_vars

\* SpecKeys: the bot in one group, restarted under other encryption keys,
\* with a clock whose advances are longer than the registration window and
\* with Telegram and Redmine always answering.
NextKeys ==
    \/ Tick(WINDOW + 1)
    \/ \E k \in Keys : SetEncryptionKey(k)
    \/ TokenCommand(1, 1)
    \/ TeamCommand(1, 1, 1, TRUE, TRUE, TRUE)
    \/ VideochatStarted(1)
    \/ VideochatEnded(1)
    \/ DailyCommandAnswered(1, 1, <<Mention(1)>>)

SpecKeys == Init /\ [][NextKeys]_vars

\* SpecRebind: the bot in one group with the clock standing still, where
\* the administrator sends /team for either project, any number of times,
\* and may unbind the group.
NextRebind ==
    \/ TokenCommand(1, 1)
    \/ \E p \in Projects : \E x \in TeamExt : TeamCommand(1, 1, p, x[1], x[2], x[3])
    \/ TeamDeleteCommand(1, 1, TRUE)
    \/ VideochatStarted(1)
    \/ VideochatEnded(1)
    \/ DailyCommandAnswered(1, 1, <<Mention(1)>>)

SpecRebind == Init /\ [][NextRebind]_vars

\* SpecReplace: two groups bound and unbound by their administrator, the
\* first for either project, with video chats and /daily in the first
\* group; the clock stands still.
NextReplace ==
    \/ TokenCommand(1, 1)
    \/ \E p \in Projects : TeamCommand(1, 1, p, TRUE, TRUE, TRUE)
    \/ TeamCommand(2, 1, 1, TRUE, TRUE, TRUE)
    \/ \E g \in Groups : TeamDeleteCommand(g, 1, TRUE)
    \/ VideochatStarted(1)
    \/ VideochatEnded(1)
    \/ DailyCommandAnswered(1, 1, <<Mention(1)>>)

SpecReplace == Init /\ [][NextReplace]_vars

\* SpecTeams: the teams table under /team and /team_delete of two
\* administrators in two groups, together with direct calls of
\* TeamService.create and TeamService.delete.
NextTeams ==
    \/ \E u \in Users : TokenCommand(u, u)
    \/ \E g \in Groups, u \in Users, p \in Projects :
            TeamCommand(g, u, p, TRUE, TRUE, TRUE)
    \/ \E g \in Groups, u \in Users : TeamDeleteCommand(g, u, TRUE)
    \/ \E g \in Groups, u \in Users, p \in Projects : StoreBind(g, u, p)
    \/ \E id \in 1..MaxTeamId : StoreSoftDelete(id)

SpecTeams == Init /\ [][NextTeams]_vars

\* SpecCreators: the bot in one group with two users who both submit tokens
\* and send /team and /team_delete, as administrators or not, with Redmine
\* answering or not; the clock stands still.
NextCreators ==
    \/ \E u \in Users : TokenCommand(u, u)
    \/ \E u \in Users, p \in Projects : \E x \in TeamExt :
            TeamCommand(1, u, p, x[1], x[2], x[3])
    \/ \E u \in Users, admin \in BOOLEAN : TeamDeleteCommand(1, u, admin)
    \/ VideochatStarted(1)
    \/ VideochatEnded(1)
    \/ \E u \in Users : DailyCommandAnswered(1, u, <<Mention(1)>>)

SpecCreators == Init /\ [][NextCreators]_vars

\* SpecTokens: /token sent by two users, with any username or none, to a
\* bot that is restarted under other encryption keys or under none.
NextTokens ==
    \/ \E k \in Keys : SetEncryptionKey(k)
    \/ \E u \in Users, name \in Handles \cup {NoName} : TokenCommand(u, name)

SpecTokens == Init /\ [][NextTokens]_vars

\* SpecStore: the bot with a clock that advances by one second, together
\* with direct calls of DailyService.create and of
\* DailyService.finish_daily on any id.
NextStore ==
    \/ Tick(1)
    \/ TokenCommand(1, 1)
    \/ TeamCommand(1, 1, 1, TRUE, TRUE, TRUE)
    \/ VideochatStarted(1)
    \/ VideochatEnded(1)
    \/ DailyCommand(1, 1, <<Mention(1)>>)
    \/ \E d \in 1..(MaxDailys + 1) : StoreClose(d)
    \/ StoreOpen(1)

SpecStore == Init /\ [][NextStore]_vars

\* SpecQueue: the bot with the clock standing still, where /daily updates
\* wait in the update queue and are handled one after another in the
\* order of arrival (main.py builds the Application without concurrent
\* updates).
NextQueue ==
    \/ TokenCommand(1, 1)
    \/ TeamCommand(1, 1, 1, TRUE, TRUE, TRUE)
    \/ VideochatStarted(1)
    \/ VideochatEnded(1)
    \/ \E r \in Requests : DailyArrives(r)
    \/ DailyHandled(1, 1, <<Mention(1)>>)

SpecQueue == Init /\ [][NextQueue]_vars

\* SpecBuckets: /daily commands with any argument list, sent as long as the
\* group has a daily to register, starting where
\* user 1 (username 1) has submitted a token and bound group 1 to a project,
\* a video chat has started and ended, and user 2 either has not talked to
\* the bot or has submitted a token under username 2, or under username 1
\* after user 1 gave that name up: with no ENCRYPTION_KEY set (nothing
\* stored), under the present key, or under an earlier one.
InitBuckets ==
    /\ now = 0
    /\ ticks = 0
    /\ encKey = 1
    /\ \E row2 \in {NoUser} \cup
                {[id |-> 2, username |-> name, token |-> k, active |-> TRUE] :
                    name \in {1, 2}, k \in Keys} :
            users = [t \in Users |->
                        IF t = 1 THEN [id |-> 1, username |-> 1, token |-> 1,
                                       active |-> TRUE]
                        ELSE row2]
    /\ teams = {[id |-> 1, group |-> 1, project |-> 1, creator |-> 1,
                 active |-> TRUE]}
    /\ dailys = <<[team_id |-> 1, group |-> 1, start |-> 0, end |-> 0,
                   registered |-> FALSE, participants |-> <<>>]>>
    /\ issues = <<>>
    /\ last = Report("init", 0, 0, "none")
    /\ inbox = NoInbox

NextBuckets ==
    \/ \E args \in DailyArgs :
            /\ get_latest_unregistered_daily_by_group(1) # 0
            /\ DailyCommand(1, 1, args)

SpecBuckets == InitBuckets /\ [][NextBuckets]_vars

\* SpecSteps: /daily commands with any argument list handled step by step,
\* starting in the states of InitBuckets.
NextSteps ==
    \/ \E args \in DailyArgs, create \in BOOLEAN : StepCreate(1, 1, args, create)
    \/ \E delivered \in BOOLEAN : StepProgress(delivered)
    \/ \E logok \in BOOLEAN : StepHandle(logok)
    \/ StepMark
    \/ \E delivered \in BOOLEAN : StepReport(delivered)

SpecSteps == InitBuckets /\ [][NextSteps]_vars

\* SpecReports: every /daily command handled step by step, those that end
\* before create_daily_task included; the event loop resumes the handler
\* whenever the call it awaits has returned.
NextReports ==
    \/ \E args \in DailyArgs, create \in BOOLEAN : StepCreate(1, 1, args, create)
    \/ \E args \in {<<>>, <<Word(1)>>, <<Mention(1)>>},
          conn \in BOOLEAN, failAt \in 0..2 :
            StepReject(1, 1, args, conn, failAt)
    \/ \E delivered \in BOOLEAN : StepProgress(delivered)
    \/ \E logok \in BOOLEAN : StepHandle(logok)
    \/ StepMark
    \/ \E delivered \in BOOLEAN : StepReport(delivered)

SpecReports ==
    /\ InitBuckets /\ [][NextReports]_vars
    /\ WF_vars(\E delivered \in BOOLEAN : StepProgress(delivered))
    /\ WF_vars(\E logok \in BOOLEAN : StepHandle(logok))
    /\ WF_vars(StepMark)
    /\ WF_vars(\E delivered \in BOOLEAN : StepReport(delivered))

\* SpecInactive: /daily commands of user 1 with any argument list, starting
\* in the states of InitBuckets, between which a caller of UserService.delete
\* may soft-delete either user.
NextInactive ==
    \/ \E id \in 1..Cardinality(Users) : StoreUserDelete(id)
    \/ \E args \in DailyArgs :
            /\ get_latest_unregistered_daily_by_group(1) # 0
            /\ DailyCommand(1, 1, args)

SpecInactive == InitBuckets /\ [][NextInactive]_vars

\* SpecAccounts: the users table under /token, under restarts with another
\* encryption key, and under direct calls of UserService.get_or_create and
\* UserService.delete.
NextAccounts ==
    \/ \E k \in Keys : SetEncryptionKey(k)
    \/ \E u \in Users : TokenCommand(u, u)
    \/ \E u \in Users : \E name \in {NoName, u}, withToken \in BOOLEAN :
            StoreGetOrCreate(u, name, withToken)
    \/ \E id \in 1..Cardinality(Users) : StoreUserDelete(id)

SpecAccounts == Init /\ [][NextAccounts]_vars

\* ======================================================================
\* Properties
\* ======================================================================
OpenDailys(g) == {d \in DailyIds : dailys[d].group = g /\ dailys[d].end = NULL}

\* C1: each group has at most one session with no end timestamp, and a
\* session-start signal received while the group has one leaves the dailys
\* table as it is.
C1_OneOpenSession ==
    /\ [](\A g \in Groups : Cardinality(OpenDailys(g)) <= 1)
    /\ [][\A g \in Groups :
            (OpenDailys(g) # {} /\ VideochatStarted(g)) => dailys' = dailys]_vars

\* a start signal has just been ignored because the group's session is open
C1_Witness ==
    /\ last.op = "started"
    /\ last.report = "already_active"
    /\ OpenDailys(last.group) # {}

\* the tracking records (Redmine issues) created for daily d
IssuesOf(d) == {i \in 1..Len(issues) : issues[i].daily = d}

\* C2: over registration requests handled one after another, no daily ever
\* has more than one tracking record created for it.
C2_OneRecordPerDaily == \A d \in DailyIds : Cardinality(IssuesOf(d)) <= 1

\* C3: when a registration request has finished, the daily it targeted is
\* registered exactly when the request's create_daily_task call succeeded.
C3_RegisteredIffCreated ==
    (last.op = "daily" /\ last.daily # 0)
        => (dailys[last.daily].registered <=> last.created)

\* seconds between the end of daily d and now
Elapsed(d) == now - dailys[d].end

\* daily d is finished, unregistered and out of the registration window
Stale(d) ==
    /\ dailys[d].end # NULL
    /\ ~dailys[d].registered
    /\ Elapsed(d) > WINDOW

\* C7: a registration request that found a candidate daily is rejected as
\* expired only when more than 30 minutes have elapsed since the daily's
\* end, and when more than 30 minutes have elapsed it is rejected (the
\* report is the expiry report, or the error report when that message could
\* not be sent) and creates no tracking record.
C7_WindowBoundary ==
    (last.op = "daily" /\ last.daily # 0) =>
        /\ Elapsed(last.daily) <= WINDOW => last.report # "expired"
        /\ Elapsed(last.daily) > WINDOW =>
                last.report \in {"expired", "error"} /\ ~last.created

\* a request made exactly 30:00 after the end has passed the window check
C7_Witness ==
    /\ last.op = "daily"
    /\ last.daily # 0
    /\ Elapsed(last.daily) = WINDOW
    /\ last.report = "success"

\* C8: a request rejected as expired creates no tracking record and changes
\* no daily; the rejected daily is still what the lookup returns; and a
\* daily that is out of the window is never changed (so never registered)
\* by any later step.
C8_StaleStaysUnregistered ==
    /\ [][(last'.op = "daily" /\ last'.report = "expired")
            => (issues' = issues /\ dailys' = dailys)]_vars
    /\ []((last.op = "daily" /\ last.report = "expired")
            => /\ Stale(last.daily)
               /\ get_latest_unregistered_daily_by_group(last.group) = last.daily)
    /\ [][\A d \in DailyIds : Stale(d) => dailys'[d] = dailys[d]]_vars

\* a request has just been rejected as expired, after the last advance of
\* the clock
C8_Witness ==
    /\ last.op = "daily"
    /\ last.report = "expired"
    /\ Stale(last.daily)
    /\ ticks = MaxTicks

\* C9: in every step, a daily whose end time is set keeps that end time.
C9_EndTimeImmutable ==
    [][\A d \in DailyIds :
            dailys[d].end # NULL => dailys'[d].end = dailys[d].end]_vars

\* C10: a close call for an id that does not exist, or for a daily that is
\* already closed, returns nothing and leaves the dailys table unchanged.
C10_CloseFailsUnlessOpen ==
    [][\A d \in 1..(MaxDailys + 1) :
            (StoreClose(d) /\ (d \notin DailyIds \/ dailys[d].end # NULL))
                => (last'.report = "absent" /\ dailys' = dailys)]_vars

\* C4: when two registration requests for the group were waiting at the
\* same time and both have been handled, they have not both created a
\* tracking record for the same daily.
C4_RaceOneRecord ==
    (/\ inbox.together
     /\ \A r \in Requests : inbox.outcome[r].handled)
        => ~(/\ inbox.outcome[1].daily = inbox.outcome[2].daily
             /\ inbox.outcome[1].created
             /\ inbox.outcome[2].created)

\* number of positions of sequence s that satisfy Test
Count(s, Test(_)) == Cardinality({i \in 1..Len(s) : Test(s[i])})

\* sub is s with some positions left out
RECURSIVE IsSubSeq(_, _)
IsSubSeq(sub, s) ==
    IF sub = <<>> THEN TRUE
    ELSE IF s = <<>> THEN FALSE
    ELSE IF Head(sub) = Head(s) THEN IsSubSeq(Tail(sub), Tail(s))
    ELSE IsSubSeq(sub, Tail(s))

\* the last request ran the bucket loop
LoopRan == last.op = "daily" /\ last.mentions # <<>>

BucketsOf(r) == <<r.buckets.not_found, r.buckets.no_token,
                  r.buckets.logged, r.buckets.failed>>

\* C5: after a registration that passed record creation, every mentioned
\* handle is in exactly one of the four buckets, the buckets hold mentioned
\* handles only, and each bucket keeps the order of the mentions.
C5_BucketsPartition ==
    LoopRan =>
        /\ \A h \in Range(last.mentions) :
                Cardinality({k \in 1..4 : h \in Range(BucketsOf(last)[k])}) = 1
        /\ \A k \in 1..4 : Range(BucketsOf(last)[k]) \subseteq Range(last.mentions)
        /\ \A k \in 1..4 : IsSubSeq(BucketsOf(last)[k], last.mentions)

\* the active accounts with username h; the lookup finds the oldest
AccountsOf(h) == {t \in Users : users[t].id # 0 /\ users[t].active
                                /\ users[t].username = h}
FirstAccount(h) ==
    CHOOSE t \in AccountsOf(h) : \A o \in AccountsOf(h) : users[t].id <= users[o].id

\* account t has a stored credential that decrypts under the present key
CredentialUsable(t) ==
    users[t].token # 0 /\ encKey # 0 /\ users[t].token = encKey

\* C6: after the bucket loop, for every mentioned handle: with no active
\* account, all its mentions are in not-found and nowhere else; with an
\* account whose credential is missing or does not decrypt, all are in
\* no-credential and nowhere else; otherwise one log_daily call was made per
\* mention, with the account's credential, and the mentions whose call
\* succeeded are in logged, those whose call failed in failed.  The record
\* was created and the daily is registered whatever the buckets hold.
C6_BucketRules ==
    LoopRan =>
        LET m == last.mentions
            b == last.buckets
            N(s, h) == Count(s, LAMBDA x : x = h)
            Calls(h, ok) == Count(last.logs,
                                  LAMBDA c : c.handle = h /\ c.ok = ok)
        IN  /\ \A h \in Range(m) :
                  IF AccountsOf(h) = {}
                  THEN /\ N(b.not_found, h) = N(m, h)
                       /\ N(b.no_token, h) + N(b.logged, h) + N(b.failed, h) = 0
                  ELSE IF ~CredentialUsable(FirstAccount(h))
                  THEN /\ N(b.no_token, h) = N(m, h)
                       /\ N(b.not_found, h) + N(b.logged, h) + N(b.failed, h) = 0
                  ELSE /\ N(b.not_found, h) + N(b.no_token, h) = 0
                       /\ Calls(h, TRUE) + Calls(h, FALSE) = N(m, h)
                       /\ N(b.logged, h) = Calls(h, TRUE)
                       /\ N(b.failed, h) = Calls(h, FALSE)
            /\ \A i \in 1..Len(last.logs) :
                  /\ last.logs[i].account = FirstAccount(last.logs[i].handle)
                  /\ last.logs[i].token = last.logs[i].account
            /\ last.created
            /\ dailys[last.daily].registered

\* three handles were mentioned: the first is unknown, the second has an
\* account without usable credential, the third's log_daily call failed
C6_Witness ==
    /\ LoopRan
    /\ Len(last.mentions) = 3
    /\ last.buckets.not_found = <<last.mentions[1]>>
    /\ last.buckets.no_token = <<last.mentions[2]>>
    /\ last.buckets.failed = <<last.mentions[3]>>
    /\ last.buckets.logged = <<>>
    /\ last.created
    /\ dailys[last.daily].registered

\* C11: a create call for a group that has an open daily inserts no row
\* and reports a conflict.
C11_OpenConflict ==
    [][\A g \in Groups :
            (StoreOpen(g) /\ OpenDailys(g) # {})
                => (dailys' = dailys /\ last'.report = "conflict")]_vars

\* the finished dailys of group g
ClosedDailys(g) == {d \in DailyIds : dailys[d].group = g /\ dailys[d].end # NULL}

\* C12: the lookup of the latest unregistered daily returns nothing for a
\* group without finished daily, and what it returns is a finished,
\* unregistered daily of the group that no finished daily of the group
\* (registered or not) ended after.
C12_LatestUnregistered ==
    \A g \in Groups :
        LET r == get_latest_unregistered_daily_by_group(g)
        IN  /\ ClosedDailys(g) = {} => r = 0
            /\ r # 0 =>
                /\ r \in ClosedDailys(g)
                /\ ~dailys[r].registered
                /\ \A o \in ClosedDailys(g) : dailys[o].end <= dailys[r].end

\* C13: a /daily command with a mention, sent in a group that is bound to
\* no team, is answered with the not-bound report, looks up no daily,
\* creates no issue and leaves users, teams, dailys and issues as they were.
C13_NotBound ==
    [][(last'.op = "daily" /\ get_by_telegram_group_id(last'.group).id = 0)
        => /\ last'.report = "not_bound"
           /\ last'.daily = 0
           /\ ~last'.created
           /\ UNCHANGED <<users, teams, dailys, issues>>]_vars

\* a request was answered not-bound in a group that lost its team after a
\* daily had finished there
C13_Witness ==
    /\ last.op = "daily"
    /\ last.report = "not_bound"
    /\ get_by_telegram_group_id(last.group).id = 0
    /\ ClosedDailys(last.group) # {}

\* the requester u has no account, no stored credential, or a stored
\* credential that does not decrypt
RequesterUnusable(u) ==
    \/ users[u].id = 0
    \/ ~users[u].active
    \/ ~CredentialUsable(u)

\* C14: in a bound group, a /daily command of a requester without usable
\* credential is answered with a credential report, whatever dailys the
\* group has.
C14_RequesterCredentialFirst ==
    (/\ last.op = "daily"
     /\ get_by_telegram_group_id(last.group).id # 0
     /\ RequesterUnusable(last.user))
        => last.report \in {"no_token", "token_error"}

\* the reports of a request that ended before or at record creation
ErrorReports == {"not_bound", "no_token", "token_error", "nothing_to_register",
                 "still_open", "expired", "no_connection", "create_failed"}

\* C15: a /daily command answered with one of the error reports creates no
\* issue and leaves users, teams and dailys as they were.
C15_ErrorsChangeNothing ==
    [][(last'.op = "daily" /\ last'.report \in ErrorReports)
        => /\ UNCHANGED <<users, teams, dailys, issues>>
           /\ ~last'.created]_vars

\* create_daily_task has just failed and the daily it was for is still
\* unregistered
C15_Witness ==
    /\ last.op = "daily"
    /\ last.report = "create_failed"
    /\ last.daily # 0
    /\ ~dailys[last.daily].registered

\* C16: a video-chat-ended update in a group with an open daily closes
\* that daily at the time of the update; in a group without open daily it
\* changes no table.
C16_EndClosesOpenDaily ==
    [][\A g \in Groups :
            VideochatEnded(g) =>
                IF OpenDailys(g) # {}
                THEN \A d \in OpenDailys(g) : dailys'[d].end = now
                ELSE UNCHANGED <<users, teams, dailys, issues>>]_vars

\* C17: a video-chat-started signal in a group bound to no team creates no
\* daily and sends no notice; in a bound group with no open daily it adds
\* exactly one row, open, started at the time of the signal, unregistered,
\* with no participants, and sends the tracking-started notice.
C17_StartOpensOneDaily ==
    [][\A g \in Groups :
            VideochatStarted(g) =>
                IF get_by_telegram_group_id(g).id = 0
                THEN /\ dailys' = dailys
                     /\ last'.report # "tracking_started"
                ELSE OpenDailys(g) = {} =>
                     /\ Len(dailys') = Len(dailys) + 1
                     /\ SubSeq(dailys', 1, Len(dailys)) = dailys
                     /\ dailys'[Len(dailys')] =
                            [team_id |-> get_by_telegram_group_id(g).id,
                             group |-> g, start |-> now, end |-> NULL,
                             registered |-> FALSE, participants |-> <<>>]
                     /\ last'.report = "tracking_started"]_vars

C17_Witness ==
    /\ last.op = "started" /\ last.report = "tracking_started"
    /\ Len(dailys) = 2
    /\ dailys[2].start = now /\ now > 0
    /\ OpenDailys(last.group) = {2}

C19_OwnCredentialEachHandle ==
    LoopRan =>
        LET Usable(h) == AccountsOf(h) # {} /\ CredentialUsable(FirstAccount(h))
            attempted == [k \in 1..Len(last.logs) |-> last.logs[k].handle]
        IN  /\ \A k \in 1..Len(last.logs) :
                    /\ AccountsOf(last.logs[k].handle) # {}
                    /\ last.logs[k].account = FirstAccount(last.logs[k].handle)
                    /\ last.logs[k].token = last.logs[k].account
            /\ attempted = SelectSeq(last.mentions, Usable)

C19_Witness ==
    /\ LoopRan
    /\ Len(last.mentions) = 3
    /\ last.buckets.not_found = <<last.mentions[1]>>
    /\ Len(last.logs) = 2
    /\ last.logs[1].handle = last.mentions[2] /\ ~last.logs[1].ok
    /\ last.logs[2].handle = last.mentions[3] /\ last.logs[2].ok
    /\ last.logs[2].token # last.user

\* the rows binding group g
TeamsOf(g) == {t \in teams : t.group = g}

\* C20: a /team command for project p that passes the administrator, token
\* and Redmine checks in a group that is already bound leaves exactly one
\* binding of the group, and that binding is to project p.
C20_RebindReplaces ==
    [][\A g \in Groups, u \in Users, p \in Projects :
            (/\ TeamCommand(g, u, p, TRUE, TRUE, TRUE)
             /\ get_by_telegram_id(u) # 0
             /\ get_redmine_token(u) # NULL
             /\ TeamsOf(g) # {})
                => /\ Cardinality(TeamsOf(g)') = 1
                   /\ \A t \in TeamsOf(g)' : t.project = p]_vars

\* C21: every group has at most one row in the teams table, active or not.
C21_OneRowPerGroup ==
    \A g \in Groups : Cardinality(TeamsOf(g)) <= 1

\* a binding made while the table holds a soft-deleted row
C21_Witness ==
    /\ last.op \in {"bind", "team"} /\ last.report \in {"bound", "team_created"}
    /\ \E t \in TeamsOf(last.group) : t.active /\ t.id = MaxTeamId
    /\ \E t \in teams : ~t.active

\* C22: a row leaves the teams table, or changes, only in a /team_delete
\* step of the user who created it; no command of another user removes or
\* replaces it.
C22_OnlyCreatorRemoves ==
    [][\A t \in teams :
            t \notin teams' =>
                (last'.op = "team_delete" /\ last'.user = t.creator)]_vars

\* the other user has just tried to delete or to rebind a bound group
C22_Witness ==
    /\ last.op \in {"team", "team_delete"}
    /\ last.report \in {"already_bound", "not_creator"}
    /\ \E t \in TeamsOf(last.group) : t.creator # last.user /\ t.active

\* C23: a /team command that passes the administrator, token and Redmine
\* checks in a group with an active binding leaves the teams table as it
\* is and answers with the already-bound notice, not with an error.
C23_ConflictIsNoOp ==
    [][\A g \in Groups, u \in Users, p \in Projects :
            (/\ TeamCommand(g, u, p, TRUE, TRUE, TRUE)
             /\ get_by_telegram_id(u) # 0
             /\ get_redmine_token(u) # NULL
             /\ get_by_telegram_group_id(g).id # 0)
                => /\ teams' = teams
                   /\ last'.report = "already_bound"]_vars

C23_Witness ==
    /\ last.op = "team" /\ last.report = "already_bound"
    /\ get_by_telegram_group_id(last.group).id # 0
    /\ get_by_telegram_group_id(last.group).creator = last.user

\* the log_daily calls the last request made for handle h
CallsFor(h) == {k \in 1..Len(last.logs) : last.logs[k].handle = h}

\* C24: one /daily request creates at most one Redmine issue and makes at
\* most one log_daily call for each mentioned handle, whatever the calls
\* answer.
C24_NoRetry ==
    [][last'.op = "daily" =>
            /\ Len(issues') <= Len(issues) + 1
            /\ \A h \in Handles : Cardinality(CallsFor(h)') <= 1]_vars

MEETING == <<"M", "E", "E", "T", "I", "N", "G">>

\* the name has the letters m-e-e-t-i-n-g in a row, each in either case
MatchesMeeting(n) ==
    \E i \in 1..Len(n) :
        /\ i + 6 <= Len(n)
        /\ \A j \in 1..7 : n[i + j - 1] \in {meeting[j], MEETING[j]}

Undecryptable(t) == users[t].token # 0 /\ users[t].token # encKey

\* C27: a mentioned handle whose account holds a credential that does not
\* decrypt gets no log_daily call and is in the no-credential bucket as often
\* as it is mentioned; the loop goes on, so every later handle with a usable
\* credential gets its call, after the issue was created.
C27_DecryptFailureIsNoCredential ==
    LoopRan =>
        \A i \in 1..Len(last.mentions) :
            LET h == last.mentions[i]
                Times(seq) == Cardinality({k \in 1..Len(seq) : seq[k] = h})
            IN  (AccountsOf(h) # {} /\ Undecryptable(FirstAccount(h))) =>
                    /\ CallsFor(h) = {}
                    /\ Times(last.buckets.no_token) = Times(last.mentions)
                    /\ last.created
                    /\ \A j \in (i + 1)..Len(last.mentions) :
                            (/\ AccountsOf(last.mentions[j]) # {}
                             /\ CredentialUsable(FirstAccount(last.mentions[j])))
                                => CallsFor(last.mentions[j]) # {}

C27_Witness ==
    /\ LoopRan
    /\ Len(last.mentions) = 2
    /\ AccountsOf(last.mentions[1]) # {}
    /\ Undecryptable(FirstAccount(last.mentions[1]))
    /\ last.buckets.no_token = <<last.mentions[1]>>
    /\ last.buckets.logged = <<last.mentions[2]>>
    /\ last.report = "success"

\* C28: a /token command of user u touches no other user's row; the first
\* one inserts a row under a new id; every later one keeps that row (same
\* id), and when it succeeds the stored blob is the one written under the
\* present key and the username is the sender's, if the sender has one;
\* no two rows ever share an id.
C28_OneAccountPerUser ==
    [][\A u \in Users, name \in Handles \cup {NoName} :
            TokenCommand(u, name) =>
                /\ \A o \in Users \ {u} : users'[o] = users[o]
                /\ \A a, b \in Users :
                        (a # b /\ users'[a].id # 0) => users'[a].id # users'[b].id
                /\ IF users[u].id = 0
                   THEN /\ users'[u].id # 0
                        /\ users'[u].username = name
                   ELSE /\ users'[u].id = users[u].id
                        /\ IF last'.report = "token_updated"
                           THEN /\ users'[u].token = encKey
                                /\ users'[u].username =
                                        IF name # NoName THEN name
                                        ELSE users[u].username
                           ELSE users'[u] = users[u]]_vars

\* user 2, the second to register, has replaced a blob written under an
\* earlier key and changed username
C28_Witness ==
    /\ last.op = "token" /\ last.report = "token_updated" /\ last.user = 2
    /\ users[2].id = 2 /\ users[1].id = 1
    /\ users[2].token = 2 /\ encKey = 2
    /\ users[1].token = 1
    /\ users[2].username = 3

\* the state of a daily row
SessionState(row) ==
    IF row.registered THEN "REGISTERED"
    ELSE IF row.end = NULL THEN "OPEN" ELSE "CLOSED"

\* C29: in every step every daily keeps its state or goes from OPEN to
\* CLOSED or from CLOSED to REGISTERED, so that no state is entered twice
\* and a registered daily stays registered; no row is deleted; and no daily
\* is registered while its end time is absent.
C29_ForwardOnly ==
    [][/\ Len(dailys') >= Len(dailys)
       /\ \A d \in DailyIds :
            LET before == SessionState(dailys[d])
                after == SessionState(dailys'[d])
            IN  \/ after = before
                \/ before = "OPEN" /\ after = "CLOSED"
                \/ before = "CLOSED" /\ after = "REGISTERED"
       /\ \A d \in 1..Len(dailys') :
            dailys'[d].registered => dailys'[d].end # NULL]_vars

\* one daily registered, the next one open
C29_Witness ==
    /\ Len(dailys) = 2
    /\ SessionState(dailys[1]) = "REGISTERED" /\ dailys[1].end # NULL
    /\ SessionState(dailys[2]) = "OPEN"
    /\ last.op = "started"

\* the number of handles the bucket loop has classified so far
Classified ==
    Len(last.buckets.not_found) + Len(last.buckets.no_token)
        + Len(last.buckets.logged) + Len(last.buckets.failed)

\* C30: in a /daily run the issue is created before any handle is
\* classified; the handles are classified one at a time in the order of
\* the mentions, each after the issue exists and before the daily is
\* marked; the daily is marked registered only when the issue exists and
\* every mentioned handle has been classified.
C30_RegistrationOrder ==
    [][/\ issues' # issues =>
            /\ last'.op = "daily_step" /\ last'.created
            /\ last'.i = 1 /\ last'.logs = <<>> /\ last'.buckets = NoBuckets
            /\ ~dailys[last'.daily].registered
       /\ (Running /\ last'.i # last.i) =>
            /\ last.created
            /\ IssuesOf(last.daily) # {}
            /\ last'.i = last.i + 1
            /\ Classified' = Classified + 1
            /\ Classified = last.i - 1
            /\ \A k \in 1..4 :
                    BucketsOf(last')[k] \in
                        {BucketsOf(last)[k],
                         Append(BucketsOf(last)[k], last.mentions[last.i])}
            /\ ~dailys[last.daily].registered /\ dailys' = dailys
       /\ dailys' # dailys =>
            /\ Running /\ last.created
            /\ IssuesOf(last.daily) # {}
            /\ Classified = Len(last.mentions)
            /\ dailys' = [dailys EXCEPT ![last.daily].registered = TRUE]]_vars

\* a run over three mentions that has just marked the daily
C30_Witness ==
    /\ last.op = "daily_step" /\ last.pc = "report"
    /\ Len(last.mentions) = 3 /\ Classified = 3
    /\ Len(last.logs) >= 1
    /\ dailys[last.daily].registered
    /\ IssuesOf(last.daily) # {}

\* C31: a /daily step that succeeds, or that changes the dailys table at
\* all, flags as registered the row that
\* get_latest_unregistered_daily_by_group returns for the group before the
\* step, and leaves every other row as it was.
C31_MarksOnlyCandidate ==
    [][(last'.op = "daily" /\ (last'.report = "success" \/ dailys' # dailys))
            => LET d == get_latest_unregistered_daily_by_group(last'.group)
               IN  /\ d # 0
                   /\ last'.daily = d
                   /\ dailys' = [dailys EXCEPT ![d].registered = TRUE]]_vars

\* the later of two closed dailys has just been registered, the earlier one
\* stays closed and unregistered
C31_Witness ==
    /\ last.op = "daily" /\ last.report = "success"
    /\ Len(dailys) = 2 /\ last.daily = 2
    /\ dailys[2].registered
    /\ SessionState(dailys[1]) = "CLOSED"

\* C32: /team and /team_delete leave the dailys table as it was, and every
\* issue a /daily creates lies in the project of the team row that
\* get_by_telegram_group_id returns for the group at that request.
C32_CurrentBinding ==
    [][/\ (last'.op \in {"team", "team_delete"} => dailys' = dailys)
       /\ (issues' # issues =>
              LET t == get_by_telegram_group_id(last'.group)
              IN  /\ last'.op = "daily"
                  /\ t # NoTeam
                  /\ issues' = Append(issues, issues'[Len(issues')])
                  /\ issues'[Len(issues')].project = t.project)]_vars

\* a daily opened under a team row that is gone was registered in the
\* project of the row the group is bound by now
C32_Witness ==
    /\ last.op = "daily" /\ last.report = "success"
    /\ get_by_telegram_group_id(1) # NoTeam
    /\ dailys[last.daily].team_id # get_by_telegram_group_id(1).id
    /\ issues[Len(issues)].daily = last.daily
    /\ issues[Len(issues)].project = get_by_telegram_group_id(1).project

\* the reports a run of daily_command may end with
TerminalReports ==
    {"usage", "no_mentions", "not_bound", "no_token", "nothing_to_register",
     "still_open", "expired", "token_error", "no_connection", "create_failed",
     "error", "success"}

C34_FailedUpdateKeepsRow ==
    [][\A u \in Users, name \in Handles \cup {NoName} :
            TokenCommand(u, name) =>
                /\ (get_by_telegram_id(u) # 0 /\ ~EncryptOK) =>
                        /\ last'.report = "update_failed"
                        /\ users' = users
                /\ last'.report = "update_failed" =>
                        /\ get_by_telegram_id(u) # 0 /\ ~EncryptOK
                        /\ users'[u].token = users[u].token
                        /\ users'[u].username = users[u].username]_vars

\* an update has just failed for a user whose row holds a blob and a
\* username
C34_Witness ==
    /\ last.op = "token" /\ last.report = "update_failed"
    /\ encKey = 0
    /\ users[last.user].token # 0
    /\ users[last.user].username # NoName

\* C35: a video chat signal, a /daily, a /team or a /team_delete of group a
\* leaves the team rows and the daily rows of every other group as they
\* were, and adds no daily row to another group.
C35_OtherGroupsUntouched ==
    [][\A a \in Groups :
        (last'.group = a /\
         last'.op \in {"started", "ended", "daily", "team", "team_delete"})
        => \A b \in Groups \ {a} :
            /\ {t \in teams' : t.group = b} = {t \in teams : t.group = b}
            /\ Len(dailys') >= Len(dailys)
            /\ \A d \in DailyIds :
                    dailys[d].group = b => dailys'[d] = dailys[d]
            /\ \A d \in 1..Len(dailys') :
                    d > Len(dailys) => dailys'[d].group = a]_vars

\* the daily of group 1 has just been registered while group 2, bound as
\* well, has a video chat going on
C35_Witness ==
    /\ last.op = "daily" /\ last.report = "success" /\ last.group = 1
    /\ get_by_telegram_group_id(2) # NoTeam
    /\ OpenDailys(2) # {}
    /\ dailys[last.daily].group = 1

\* C36: in one /daily request no account has time logged more than once
\* and no handle stands in two different buckets of the report.
C36_OncePerAccount ==
    LoopRan =>
        /\ \A t \in Users :
                Cardinality({k \in 1..Len(last.logs) :
                                last.logs[k].account = t /\ last.logs[k].ok}) <= 1
        /\ \A h \in Handles :
                Cardinality({k \in 1..4 : h \in Range(BucketsOf(last)[k])}) <= 1

\* the rows with username h that are soft-deleted
InactiveAccountsOf(h) == {t \in Users : users[t].id # 0 /\ ~users[t].active
                                        /\ users[t].username = h}

\* C37: the lookups by telegram id and by username return active rows
\* only; a /daily makes no log_daily call for a soft-deleted account, puts
\* a mentioned handle that no active account has into the not-found bucket
\* and into no other, and answers a soft-deleted requester with the
\* no-token report (or a report that comes before that check) without
\* creating an issue.
C37_InactiveNeverResolved ==
    /\ \A u \in Users : get_by_telegram_id(u) # 0 => users[u].active
    /\ \A h \in Handles :
            get_by_username(h) # 0 => users[get_by_username(h)].active
    /\ last.op = "daily" =>
            /\ \A k \in 1..Len(last.logs) : users[last.logs[k].account].active
            /\ \A h \in Range(last.mentions) :
                    AccountsOf(h) = {} =>
                        /\ h \in Range(last.buckets.not_found)
                        /\ h \notin Range(last.buckets.no_token)
                                       \cup Range(last.buckets.logged)
                                       \cup Range(last.buckets.failed)
            /\ (users[last.user].id # 0 /\ ~users[last.user].active) =>
                    /\ last.report \in {"usage", "no_mentions", "error", "no_token"}
                    /\ ~last.created
                    /\ last.logs = <<>>

\* a request has run its loop over a handle whose only account is
\* soft-deleted and holds a blob written under the present key
C37_Witness ==
    /\ LoopRan
    /\ \E h \in Range(last.mentions) :
            /\ AccountsOf(h) = {}
            /\ \E t \in InactiveAccountsOf(h) : users[t].token = encKey
            /\ h \in Range(last.buckets.not_found)

\* C38: every call of UserService.get_or_create returns an account of the
\* given telegram id, which is then to be found in the table, and no two
\* rows of the table share a telegram id or a primary key.
C38_GetOrCreateReturns ==
    /\ last.op = "get_or_create" =>
            /\ last.report = "returned"
            /\ get_by_telegram_id(last.user) = last.user
    /\ \A a, b \in Users :
            (a # b /\ users[a].id # 0) => users[a].id # users[b].id

\* C39: with the clock only advancing, every daily starts no later than the
\* present time, every finished daily ends no earlier than it starts and no
\* later than the present time, and the hours /daily computes for it are
\* not negative.
C39_EndNotBeforeStart ==
    \A d \in DailyIds :
        /\ dailys[d].start <= now
        /\ dailys[d].end # NULL =>
                /\ dailys[d].start <= dailys[d].end
                /\ dailys[d].end <= now
                /\ daily_duration_hours(dailys[d].start, dailys[d].end).num >= 0

\* a daily that ended after it started, the clock having advanced in
\* between, has just been registered
C39_Witness ==
    /\ last.op = "daily" /\ last.report = "success"
    /\ dailys[last.daily].end > dailys[last.daily].start
    /\ IssuesOf(last.daily) # {}

====
